---- MODULE Spec2Model ----
(***************************************************************************)
(* Personal finance tracker (Streamlit pages over a Google spreadsheet).   *)
(* The model covers the three worksheets, the process-wide st.cache_data   *)
(* caches, the rate resolution with its two providers, and the script runs *)
(* of the Entry, Monthly Report and Insights pages.  Streamlit runs every  *)
(* browser session's script in its own thread of one server process, so    *)
(* the runs of two sessions interleave between their spreadsheet calls.    *)
(***************************************************************************)
EXTENDS Integers, Sequences, FiniteSets, TLC

VARIABLES
    sheet,      \* worksheet title -> the rows of the worksheet, top to bottom
    hdrCache,   \* st.cache_data of _read_header_row, keyed by worksheet title
    dfCache,    \* st.cache_data of read_df_cached, keyed by worksheet title
    rateCache,  \* st.cache_data of _get_rate_from_sheet_cached, keyed by date
    pc,         \* session -> position of its script run
    loc,        \* session -> widget values and script variables of its run
    locked,     \* history: date -> the first rate get_rate_for_date returned for it
    fresh       \* history: the (date, rate) resolved through the secondary
                \* provider, kept until a cache entry is found expired

vars == <<sheet, hdrCache, dfCache, rateCache, pc, loc, locked, fresh>>

---------------------------------------------------------------------------
(* Bounds of the model *)

\* data rows a worksheet may hold before the model stops appending to it
MaxRows == 2
\* rows the Categories worksheet may hold beyond one seeding of the defaults
MaxAdds == 2
\* rows of a table handed to normalize_transactions_df
MaxTxRows == 2

Sessions == {"s1", "s2"}
Dates == {"d1", "d2"}
\* date.today(); "d1" is a past date
Today == "d2"
\* st.number_input(min_value=0.0): the amounts tried
Amounts == {0, 3}
\* the entry types tried, out of the selectbox of 1_Entry.py
EntryTypes == {"Income"}
\* values a provider may report for BDT; the last two are not positive
ProviderValues == {5, 7, 0, -1}

---------------------------------------------------------------------------
(* Sheet headers and rows *)

TX_HEADERS ==
    <<"id", "date", "type", "category", "remarks",
      "amount_eur", "rate_eur_bdt", "amount_bdt", "created_at">>
CAT_HEADERS == <<"category_name", "type">>
RATE_HEADERS == <<"date", "eur_bdt_rate">>

Titles == {"Transactions", "Categories", "Rates"}

\* a row of strings, as ensure_headers writes it
HeaderRow(headers) == [k |-> "hdr", cols |-> headers]
\* row_values(1) of a worksheet without rows
EmptyRow == [k |-> "empty"]

\* the row tx_ws.append_row writes (id, category, remarks and created_at are
\* opaque strings no operation reads back; they are left out)
TxRow(d, ty, eur, rate, bdt) ==
    [k |-> "tx", date |-> d, type |-> ty,
     amount_eur |-> eur, rate_eur_bdt |-> rate, amount_bdt |-> bdt]
CatRow(name, ty) == [k |-> "cat", category_name |-> name, type |-> ty]
RateRow(d, rate) == [k |-> "rate", date |-> d, eur_bdt_rate |-> rate]

\* A text is a sequence of tokens: a word, or " " for a run of whitespace.
Word(w) == <<w>>

RECURSIVE LStrip(_)
LStrip(s) == IF s # <<>> /\ Head(s) = " " THEN LStrip(Tail(s)) ELSE s

RECURSIVE RStrip(_)
RStrip(s) ==
    IF s # <<>> /\ s[Len(s)] = " " THEN RStrip(SubSeq(s, 1, Len(s) - 1)) ELSE s

\* str.strip()
Strip(s) == RStrip(LStrip(s))

\* the defaults of get_or_create_category_sheet_defaults
DefaultCategories ==
    << <<Word("Salary"), "Income">>,
       <<Word("Freelance"), "Income">>,
       <<Word("Rent"), "Expense">>,
       <<Word("Food"), "Expense">>,
       <<Word("Transport"), "Expense">>,
       <<Word("Bills"), "Expense">>,
       <<Word("Shopping"), "Expense">>,
       <<Word("General"), "Other">>,
       << <<"Loan", " ", "Taken">>, "Debt">>,
       << <<"Loan", " ", "Repayment">>, "Debt Payment">> >>

\* what the user may type into "Category name"
NameInputs ==
    {<<>>, <<" ">>, Word("Gym"), <<" ", "Gym", " ">>, Word("Food")}
\* the category types tried, out of the selectbox of the form
CatTypeInputs == {"Expense"}

---------------------------------------------------------------------------
(* Caches: an entry is the set of values cached under a key, {} when the
   key has no entry.  An optional value (float | None) is a set too: {} is
   None and {r} is the float r. *)

NoCache(keys) == [key \in keys |-> {}]

\* an entry as a call finds it: st.cache_data checks the TTL when the entry
\* is read, and an entry found expired counts as absent
Live(entry, expired) == IF expired THEN {} ELSE entry

\* the value a cached function hands back: the entry's on a hit, else computed
Cached(entry, computed) == IF entry # {} THEN CHOOSE v \in entry : TRUE ELSE computed

\* the entry after the call: filled with the value handed back
Filled(entry, computed) == {Cached(entry, computed)}

\* only an entry that exists can be found expired
CanExpire(entry, expired) == expired => entry # {}

DfTitles == {"Transactions", "Categories"}

\* st.cache_data.clear(): every cached function loses every entry
invalidate_all_data_caches ==
    /\ hdrCache' = NoCache(Titles)
    /\ dfCache' = NoCache(DfTitles)
    /\ rateCache' = NoCache(Dates)

\* a raw value of a cell or a JSON field: a number, or text float() rejects
Num(v) == [num |-> TRUE, v |-> v]
NotNum == [num |-> FALSE, v |-> 0]

safe_float(x, default) == IF x.num THEN x.v ELSE default

---------------------------------------------------------------------------
(* Sheet reads *)

\* w.row_values(1)
row_values_1(t) == IF sheet[t] = <<>> THEN EmptyRow ELSE sheet[t][1]

\* read_df_cached without the cache: get_all_values, empty below two rows
\* (the frame is kept as its values, header row first)
read_df_fresh(t) == IF Len(sheet[t]) < 2 THEN <<>> ELSE sheet[t]

\* read_df(worksheet): the value handed back
read_df(t, expired) == Cached(Live(dfCache[t], expired), read_df_fresh(t))

\* read_df(worksheet): the cache after the call
read_df_fills(t, expired) ==
    dfCache' = [dfCache EXCEPT ![t] = Filled(Live(@, expired), read_df_fresh(t))]

\* time passes when an entry is found expired
Elapse(expired) == fresh' = IF expired THEN {} ELSE fresh

\* DataFrame.empty
DfEmpty(df) == df = <<>>

\* the cell of column 1 of a row, as text
Column1(row) ==
    IF row.k = "cat" THEN row.category_name
    ELSE IF row.k = "hdr" THEN Word(row.cols[1])
    ELSE <<>>

\* "category_name" in cat_df.columns
HasCategoryColumn(df) == df[1].k = "hdr" /\ df[1].cols[1] = "category_name"

\* the set `existing` of 3_Insights_and_Categories.py
ExistingNames(df) ==
    IF ~DfEmpty(df) /\ HasCategoryColumn(df)
    THEN {Strip(Column1(df[i])) : i \in 2..Len(df)}
    ELSE {}

\* rates_ws.find(d_str, in_column=1): the first row whose column 1 is d_str
FindRow(rows, d) ==
    LET hits == {i \in 1..Len(rows) : rows[i].k = "rate" /\ rows[i].date = d}
    IN  IF hits = {} THEN {} ELSE {CHOOSE i \in hits : \A j \in hits : i <= j}

\* the body of _get_rate_from_sheet_cached when the sheet answers
SheetRate(rows, d) ==
    LET cell == FindRow(rows, d)
    IN  IF cell = {} THEN {}
        ELSE LET rate == safe_float(Num(rows[CHOOSE i \in cell : TRUE].eur_bdt_rate), 0)
             IN  IF rate > 0 THEN {rate} ELSE {}

---------------------------------------------------------------------------
(* FX providers *)

\* a provider's answer: the HTTP status and the JSON body's rates.BDT;
\* status 0 stands for requests.get raising (a timeout, no connection)
Responses ==
    {[status |-> 0, hasBDT |-> FALSE, bdt |-> NotNum],
     [status |-> 500, hasBDT |-> FALSE, bdt |-> NotNum],
     [status |-> 200, hasBDT |-> FALSE, bdt |-> NotNum],
     [status |-> 200, hasBDT |-> TRUE, bdt |-> NotNum]}
    \cup {[status |-> 200, hasBDT |-> TRUE, bdt |-> Num(v)] : v \in ProviderValues}

Ok(rate) == [ok |-> TRUE, rate |-> rate, reason |-> "", sent |-> TRUE]
Raise(reason, sent) == [ok |-> FALSE, rate |-> 0, reason |-> reason, sent |-> sent]

\* the checks both providers make on an answer
ParseRate(resp, provider) ==
    IF resp.status = 0 THEN Raise(<<provider, "request raised">>, TRUE)
    ELSE IF resp.status # 200 THEN Raise(<<provider, "HTTP">>, TRUE)
    ELSE IF ~resp.hasBDT THEN Raise(<<provider, "missing BDT">>, TRUE)
    ELSE IF safe_float(resp.bdt, 0) <= 0 THEN Raise(<<provider, "invalid rate">>, TRUE)
    ELSE Ok(safe_float(resp.bdt, 0))

_fetch_eur_to_bdt_rate_frankfurter(d, resp) == ParseRate(resp, "Frankfurter")

\* a secondary provider that is asked for any date
ErapiForAnyDate(d, resp) == ParseRate(resp, "ER-API")

_fetch_eur_to_bdt_rate_erapi(d, resp) ==
    IF d # Today
    THEN Raise(<<"open.er-api.com", "fallback supports only today's rate">>, FALSE)
    ELSE ParseRate(resp, "ER-API")

\* a chain that tries the fallback provider first
FetchSecondaryFirst(d, resp1, resp2) ==
    LET first == _fetch_eur_to_bdt_rate_erapi(d, resp2)
        second == _fetch_eur_to_bdt_rate_frankfurter(d, resp1)
        asked1 == IF first.sent THEN <<"er-api">> ELSE <<>>
    IN  IF first.ok
        THEN [ok |-> TRUE, rate |-> first.rate, errors |-> <<>>,
              reqs |-> {"er-api"}, via |-> "er-api", asked |-> asked1]
        ELSE IF second.ok
        THEN [ok |-> TRUE, rate |-> second.rate,
              errors |-> << <<"ER-API failed">> \o first.reason >>,
              reqs |-> {"frankfurter"} \cup (IF first.sent THEN {"er-api"} ELSE {}),
              via |-> "frankfurter",
              asked |-> asked1 \o <<"frankfurter">>]
        ELSE [ok |-> FALSE, rate |-> 0,
              errors |-> << <<"ER-API failed">> \o first.reason,
                            <<"Frankfurter failed">> \o second.reason >>,
              reqs |-> {"frankfurter"} \cup (IF first.sent THEN {"er-api"} ELSE {}),
              via |-> "none",
              asked |-> asked1 \o <<"frankfurter">>]

\* the chain: the result, the errors collected and the requests sent, as a
\* set and in the order they were made
_fetch_eur_to_bdt_rate(d, resp1, resp2) ==
    LET first == _fetch_eur_to_bdt_rate_frankfurter(d, resp1)
        second == _fetch_eur_to_bdt_rate_erapi(d, resp2)
        asked2 == IF second.sent THEN <<"er-api">> ELSE <<>>
    IN  IF first.ok
        THEN [ok |-> TRUE, rate |-> first.rate, errors |-> <<>>,
              reqs |-> {"frankfurter"}, via |-> "frankfurter",
              asked |-> <<"frankfurter">>]
        ELSE IF second.ok
        THEN [ok |-> TRUE, rate |-> second.rate,
              errors |-> << <<"Frankfurter failed">> \o first.reason >>,
              reqs |-> {"frankfurter", "er-api"}, via |-> "er-api",
              asked |-> <<"frankfurter">> \o asked2]
        ELSE [ok |-> FALSE, rate |-> 0,
              errors |-> << <<"Frankfurter failed">> \o first.reason,
                            <<"ER-API failed">> \o second.reason >>,
              reqs |-> {"frankfurter"} \cup (IF second.sent THEN {"er-api"} ELSE {}),
              via |-> "none",
              asked |-> <<"frankfurter">> \o asked2]

---------------------------------------------------------------------------
(* Data frames and normalize_transactions_df *)

\* utils.py lines 275-278
required_cols ==
    <<"id", "date", "type", "category", "remarks",
      "amount_eur", "rate_eur_bdt", "amount_bdt", "created_at">>
RequiredSet == {required_cols[i] : i \in 1..Len(required_cols)}
AmountCols == {"amount_eur", "rate_eur_bdt", "amount_bdt"}

\* a cell of a raw table is a string: its text, the float it spells (none
\* when float() rejects it) and the month of the date it spells (none when
\* it is no date)
Cell(text, num, month) == [text |-> text, num |-> num, month |-> month]
EmptyCell == Cell("", {}, {})
JunkCell == Cell("n/a", {}, {})
NumberCell(text, v) == Cell(text, {v}, {})
DateCell(text, month) == Cell(text, {}, {month})
TextCell(text) == Cell(text, {}, {})

\* a DataFrame: its column labels and its rows, each a cell per column
Frame(columns, rows) == [columns |-> columns, rows |-> rows]
\* pd.DataFrame()
NoFrame == Frame({}, <<>>)
\* DataFrame.empty: an axis of length 0
FrameEmpty(df) == df.columns = {} \/ df.rows = <<>>

\* pd.to_datetime(..., errors="coerce"): the date, or NaT (no date)
to_datetime(cell) == cell.month
\* pd.to_numeric(..., errors="coerce").fillna(0.0)
to_numeric(cell) == IF cell.num = {} THEN 0 ELSE CHOOSE v \in cell.num : TRUE
\* astype(str)
astype_str(cell) == cell.text

\* a normalizer whose list of required columns leaves out created_at
NormalizeEightColumns(tx_df) ==
    IF FrameEmpty(tx_df) THEN tx_df
    ELSE LET columns == tx_df.columns \cup (RequiredSet \ {"created_at"})
             Raw(row, col) == IF col \in tx_df.columns THEN row[col] ELSE EmptyCell
             Coerce(row) ==
                 [col \in columns |->
                     IF col = "date" THEN to_datetime(Raw(row, col))
                     ELSE IF col \in AmountCols THEN to_numeric(Raw(row, col))
                     ELSE astype_str(Raw(row, col))]
         IN  Frame(columns, [i \in 1..Len(tx_df.rows) |-> Coerce(tx_df.rows[i])])

\* utils.py lines 269-291
normalize_transactions_df(tx_df) ==
    IF FrameEmpty(tx_df) THEN tx_df
    ELSE LET columns == tx_df.columns \cup RequiredSet
             Raw(row, col) == IF col \in tx_df.columns THEN row[col] ELSE EmptyCell
             Coerce(row) ==
                 [col \in columns |->
                     IF col = "date" THEN to_datetime(Raw(row, col))
                     ELSE IF col \in AmountCols THEN to_numeric(Raw(row, col))
                     ELSE IF col \in RequiredSet THEN astype_str(Raw(row, col))
                     ELSE Raw(row, col)]
         IN  Frame(columns, [i \in 1..Len(tx_df.rows) |-> Coerce(tx_df.rows[i])])

---------------------------------------------------------------------------
(* Tables a read of Transactions may hand over *)

\* the cells of a row as the application writes it, for a date cell, a type
\* and the cells of the two amounts
RawRow(date, type, amounts) ==
    [col \in RequiredSet |->
        IF col = "date" THEN date
        ELSE IF col = "type" THEN TextCell(type)
        ELSE IF col = "amount_eur" THEN amounts.eur
        ELSE IF col = "amount_bdt" THEN amounts.bdt
        ELSE IF col = "rate_eur_bdt" THEN NumberCell("5", 5)
        ELSE IF col = "id" THEN TextCell("TX-1")
        ELSE IF col = "category" THEN TextCell("General")
        ELSE IF col = "remarks" THEN EmptyCell
        ELSE TextCell("2026-02-07T10:00:00")]

January == DateCell("2026-01-15", "2026-01")
February == DateCell("2026-02-07", "2026-02")
Hundred == [eur |-> NumberCell("100", 100), bdt |-> NumberCell("500", 500)]
Forty == [eur |-> NumberCell("40", 40), bdt |-> NumberCell("200", 200)]
NoAmount == [eur |-> JunkCell, bdt |-> JunkCell]
\* 1_Entry.py line 94
types == {"Income", "Expense", "Debt", "Debt Payment", "Other"}

\* rows with cells that do not parse, and well-formed rows of every type
MalformedRows ==
    {RawRow(d, "Income", a) : d \in {February, JunkCell}, a \in {Hundred, NoAmount}}
WellFormedRows ==
    {RawRow(d, ty, a) : d \in {January, February, JunkCell}, ty \in types,
                        a \in {Hundred, Forty}}

SeqsUpTo(S, n) == UNION {[1..k -> S] : k \in 0..n}

\* a table without the columns it lacks
Restrict(rows, columns) ==
    Frame(columns, [i \in DOMAIN rows |-> [col \in columns |-> rows[i][col]]])

---------------------------------------------------------------------------
(* Sessions *)

\* st.session_state defaults of 1_Entry.py and the script variables, at rest
IdleLoc ==
    [date |-> Today, amount |-> 0, type |-> "Income", click |-> FALSE,
     i |-> 1, rate |-> {}, amount_bdt |-> 0, errors |-> <<>>, reqs |-> {},
     via |-> "none", name |-> <<>>, ctype |-> "Expense",
     raw_df |-> NoFrame, tx_df |-> NoFrame, sel_month |-> "", summary |-> {},
     asked |-> <<>>]

Init ==
    /\ sheet = [t \in Titles |-> <<>>]
    /\ hdrCache = NoCache(Titles)
    /\ dfCache = NoCache(DfTitles)
    /\ rateCache = NoCache(Dates)
    /\ pc = [s \in Sessions |-> "idle"]
    /\ loc = [s \in Sessions |-> IdleLoc]
    /\ locked = [d \in Dates |-> {}]
    /\ fresh = {}

Goto(s, label) == pc' = [pc EXCEPT ![s] = label]
Keep(s) == loc' = loc
SetLoc(s, value) == loc' = [loc EXCEPT ![s] = value]

IsData(row) == row.k # "hdr"
DataRows(t) == Len(SelectSeq(sheet[t], IsData))

append_row(t, row) == sheet' = [sheet EXCEPT ![t] = Append(@, row)]

UnchangedCaches == UNCHANGED <<hdrCache, dfCache, rateCache>>
UnchangedHistory == UNCHANGED <<locked, fresh>>

---------------------------------------------------------------------------
(* 1_Entry.py: a script run of the Entry page *)

\* the user changes a widget of the Entry page (or opens the page)
StartEntry(s, d, a, ty) ==
    /\ pc[s] \in {"idle", "ready"}
    /\ SetLoc(s, [IdleLoc EXCEPT !.date = d, !.amount = a, !.type = ty])
    /\ Goto(s, "eh_read")
    /\ UNCHANGED sheet /\ UnchangedCaches /\ UnchangedHistory

\* the user presses "Save Entry", which the last run rendered enabled
ClickSave(s) ==
    /\ pc[s] = "ready"
    /\ SetLoc(s, [loc[s] EXCEPT !.click = TRUE])
    /\ Goto(s, "eh_read")
    /\ UNCHANGED sheet /\ UnchangedCaches /\ UnchangedHistory

\* lines 23-25: the worksheets in the order their headers are ensured
EntryHeaderOrder == <<"Transactions", "Categories", "Rates">>

Headers(t) ==
    IF t = "Transactions" THEN TX_HEADERS
    ELSE IF t = "Categories" THEN CAT_HEADERS
    ELSE RATE_HEADERS

\* after ensure_headers returned: the next worksheet, then the defaults
AfterHeaders(s) ==
    IF loc[s].i < Len(EntryHeaderOrder)
    THEN SetLoc(s, [loc[s] EXCEPT !.i = @ + 1]) /\ Goto(s, "eh_read")
    ELSE SetLoc(s, [loc[s] EXCEPT !.i = 1]) /\ Goto(s, "seed_read")

\* ensure_headers, lines 91-96: the header row, through the cache or, when
\* the cached read raises, read directly
EnsureHeadersRead(s, faults) ==
    /\ pc[s] = "eh_read"
    /\ LET t == EntryHeaderOrder[loc[s].i]
       IN  \E raises \in faults, expired \in BOOLEAN :
             /\ CanExpire(hdrCache[t], expired)
             /\ raises => Live(hdrCache[t], expired) = {}
             /\ hdrCache' =
                  IF raises THEN [hdrCache EXCEPT ![t] = {}]
                  ELSE [hdrCache EXCEPT ![t] = Filled(Live(@, expired), row_values_1(t))]
             /\ LET existing ==
                      IF raises THEN row_values_1(t)
                      ELSE Cached(Live(hdrCache[t], expired), row_values_1(t))
                IN  IF existing # HeaderRow(Headers(t))
                    THEN Goto(s, "eh_clear") /\ Keep(s)
                    ELSE AfterHeaders(s)
             /\ Elapse(expired)
    /\ UNCHANGED <<sheet, dfCache, rateCache, locked>>

\* ensure_headers, line 97: worksheet.clear()
EnsureHeadersClear(s) ==
    /\ pc[s] = "eh_clear"
    /\ sheet' = [sheet EXCEPT ![EntryHeaderOrder[loc[s].i]] = <<>>]
    /\ Goto(s, "eh_append") /\ Keep(s)
    /\ UnchangedCaches /\ UnchangedHistory

\* ensure_headers, line 98: worksheet.append_row(headers)
EnsureHeadersAppend(s) ==
    /\ pc[s] = "eh_append"
    /\ LET t == EntryHeaderOrder[loc[s].i]
       IN  append_row(t, HeaderRow(Headers(t)))
    /\ Goto(s, "eh_inval") /\ Keep(s)
    /\ UnchangedCaches /\ UnchangedHistory

\* ensure_headers, line 99
EnsureHeadersInvalidate(s) ==
    /\ pc[s] = "eh_inval"
    /\ invalidate_all_data_caches
    /\ AfterHeaders(s)
    /\ UNCHANGED sheet /\ UnchangedHistory

\* get_or_create_category_sheet_defaults, lines 245-248
SeedRead(s) ==
    /\ pc[s] = "seed_read"
    /\ \E expired \in BOOLEAN :
         /\ CanExpire(dfCache["Categories"], expired)
         /\ read_df_fills("Categories", expired)
         /\ IF DfEmpty(read_df("Categories", expired))
            THEN Goto(s, "seed_append")
            ELSE Goto(s, "load_tx")
         /\ Elapse(expired)
    /\ Keep(s)
    /\ UNCHANGED <<sheet, hdrCache, rateCache, locked>>

\* the rows of the defaults, in order
DefaultRows ==
    [j \in 1..Len(DefaultCategories) |->
        CatRow(DefaultCategories[j][1], DefaultCategories[j][2])]

\* lines 261-262: one append_row per default (taken as one step)
SeedAppend(s) ==
    /\ pc[s] = "seed_append"
    /\ sheet' = [sheet EXCEPT !["Categories"] = @ \o DefaultRows]
    /\ Goto(s, "seed_inval") /\ Keep(s)
    /\ UnchangedCaches /\ UnchangedHistory

\* line 263
SeedInvalidate(s) ==
    /\ pc[s] = "seed_inval"
    /\ invalidate_all_data_caches
    /\ Goto(s, "load_tx") /\ Keep(s)
    /\ UNCHANGED sheet /\ UnchangedHistory

\* 1_Entry.py line 42: read_df of Transactions
LoadTx(s) ==
    /\ pc[s] = "load_tx"
    /\ \E expired \in BOOLEAN :
         /\ CanExpire(dfCache["Transactions"], expired)
         /\ read_df_fills("Transactions", expired)
         /\ Elapse(expired)
    /\ Goto(s, "load_cat") /\ Keep(s)
    /\ UNCHANGED <<sheet, hdrCache, rateCache, locked>>

\* 1_Entry.py line 43: read_df of Categories
LoadCat(s) ==
    /\ pc[s] = "load_cat"
    /\ \E expired \in BOOLEAN :
         /\ CanExpire(dfCache["Categories"], expired)
         /\ read_df_fills("Categories", expired)
         /\ Elapse(expired)
    /\ Goto(s, "rate_lookup") /\ Keep(s)
    /\ UNCHANGED <<sheet, hdrCache, rateCache, locked>>

---------------------------------------------------------------------------
(* get_rate_for_date, called from 1_Entry.py line 158 *)

\* a conversion that rounds the product down to tens
RoundedConvert(amount_eur, rate) == ((amount_eur * rate) \div 10) * 10

\* 1_Entry.py line 159
Convert(amount_eur, rate) == amount_eur * rate

\* get_rate_for_date returned `rate` to line 158: lines 158-160 (the
\* record of the chain's requests ends with the call)
RateReturned(s, rate, reqs) ==
    /\ SetLoc(s, [loc[s] EXCEPT !.rate = {rate},
                                !.amount_bdt = Convert(loc[s].amount, rate),
                                !.reqs = reqs,
                                !.asked = <<>>])
    /\ locked' = [locked EXCEPT ![loc[s].date] = IF @ = {} THEN {rate} ELSE @]
    /\ Goto(s, "render")

\* lines 229-231: the cached lookup; the sheet read behind a miss may raise,
\* which the function reports as None
RateLookup(s, faults) ==
    /\ pc[s] = "rate_lookup"
    /\ LET d == loc[s].date
       IN  \E raises \in faults, expired \in BOOLEAN :
             /\ CanExpire(rateCache[d], expired)
             /\ raises => Live(rateCache[d], expired) = {}
             /\ LET entry == Live(rateCache[d], expired)
                    computed == IF raises THEN {} ELSE SheetRate(sheet["Rates"], d)
                    existing == Cached(entry, computed)
                    reqs == IF entry = {} THEN {"sheet"} ELSE {}
                IN  /\ rateCache' = [rateCache EXCEPT ![d] = Filled(entry, computed)]
                    /\ IF existing # {}
                       THEN RateReturned(s, CHOOSE r \in existing : TRUE, reqs)
                       ELSE /\ SetLoc(s, [loc[s] EXCEPT !.reqs = reqs])
                            /\ Goto(s, "rate_fetch")
                            /\ UNCHANGED locked
             /\ Elapse(expired)
    /\ UNCHANGED <<sheet, hdrCache, dfCache>>

\* lines 233-235: the provider chain, then the append to Rates; when the
\* chain raises, lines 161-165 of 1_Entry.py catch it
RateFetch(s) ==
    /\ pc[s] = "rate_fetch"
    /\ \E resp1 \in Responses, resp2 \in Responses :
         LET d == loc[s].date
             got == _fetch_eur_to_bdt_rate(d, resp1, resp2)
         IN  IF got.ok
             THEN /\ DataRows("Rates") < MaxRows
                  /\ append_row("Rates", RateRow(d, got.rate))
                  /\ SetLoc(s, [loc[s] EXCEPT !.rate = {got.rate},
                                              !.errors = got.errors,
                                              !.reqs = @ \cup got.reqs,
                                              !.via = got.via,
                                              !.asked = got.asked])
                  /\ Goto(s, "rate_inval")
             ELSE /\ SetLoc(s, [loc[s] EXCEPT !.rate = {},
                                              !.amount_bdt = 0,
                                              !.errors = got.errors,
                                              !.reqs = @ \cup got.reqs,
                                              !.asked = got.asked])
                  /\ Goto(s, "render")
                  /\ UNCHANGED sheet
    /\ UnchangedCaches /\ UnchangedHistory

\* lines 237-238
RateInvalidate(s) ==
    /\ pc[s] = "rate_inval"
    /\ invalidate_all_data_caches
    /\ RateReturned(s, CHOOSE r \in loc[s].rate : TRUE, loc[s].reqs)
    /\ fresh' = IF loc[s].via = "er-api"
                THEN {<<loc[s].date, CHOOSE r \in loc[s].rate : TRUE>>}
                ELSE fresh
    /\ UNCHANGED sheet

---------------------------------------------------------------------------
(* 1_Entry.py: the Save button *)

\* a button that is disabled only while the rate is unresolved
DisabledWithoutRate(rate, amount_eur) == rate = {}

\* line 173
save_disabled(rate, amount_eur) == rate = {} \/ amount_eur <= 0

\* lines 176-178: the button was pressed but this run has no rate
SaveBlocked(rate) == rate = {}

\* lines 173-178: the button; a run that ends leaves the widgets for the user
Render(s) ==
    /\ pc[s] = "render"
    /\ IF loc[s].click
       THEN IF SaveBlocked(loc[s].rate)
            THEN Goto(s, "idle") /\ SetLoc(s, IdleLoc)
            ELSE Goto(s, "save_append") /\ Keep(s)
       ELSE IF save_disabled(loc[s].rate, loc[s].amount)
            THEN Goto(s, "idle") /\ SetLoc(s, IdleLoc)
            ELSE /\ Goto(s, "ready")
                 /\ SetLoc(s, [IdleLoc EXCEPT !.date = loc[s].date,
                                              !.amount = loc[s].amount,
                                              !.type = loc[s].type])
    /\ UNCHANGED sheet /\ UnchangedCaches /\ UnchangedHistory

\* lines 180-193
SaveAppend(s) ==
    /\ pc[s] = "save_append"
    /\ DataRows("Transactions") < MaxRows
    /\ append_row("Transactions",
                  TxRow(loc[s].date, loc[s].type, loc[s].amount,
                        CHOOSE r \in loc[s].rate : TRUE, loc[s].amount_bdt))
    /\ Goto(s, "save_inval") /\ Keep(s)
    /\ UnchangedCaches /\ UnchangedHistory

\* lines 195-200: invalidate, then st.rerun() with the form reset
SaveInvalidate(s) ==
    /\ pc[s] = "save_inval"
    /\ invalidate_all_data_caches
    /\ SetLoc(s, IdleLoc)
    /\ Goto(s, "eh_read")
    /\ UNCHANGED sheet /\ UnchangedHistory

---------------------------------------------------------------------------
(* 3_Insights_and_Categories.py and 2_Monthly_Report.py *)

\* the page is opened, or the form is submitted with a name and a type
StartInsights(s, name, ctype, add) ==
    /\ pc[s] \in {"idle", "ready"}
    /\ SetLoc(s, [IdleLoc EXCEPT !.name = name, !.ctype = ctype, !.click = add])
    /\ Goto(s, "ins_tx")
    /\ UNCHANGED sheet /\ UnchangedCaches /\ UnchangedHistory

\* line 12
InsightsLoadTx(s) ==
    /\ pc[s] = "ins_tx"
    /\ \E expired \in BOOLEAN :
         /\ CanExpire(dfCache["Transactions"], expired)
         /\ read_df_fills("Transactions", expired)
         /\ Elapse(expired)
    /\ Goto(s, "ins_cat") /\ Keep(s)
    /\ UNCHANGED <<sheet, hdrCache, rateCache, locked>>

\* lines 57-63: the submitted name is kept only when new and not empty
Accepted(name, existing) == name # <<>> /\ name \notin existing

\* lines 13 and 45-63: read Categories, build `existing`, check the name
InsightsLoadCat(s) ==
    /\ pc[s] = "ins_cat"
    /\ \E expired \in BOOLEAN :
         /\ CanExpire(dfCache["Categories"], expired)
         /\ read_df_fills("Categories", expired)
         /\ LET existing == ExistingNames(read_df("Categories", expired))
                name == Strip(loc[s].name)
            IN  IF loc[s].click /\ Accepted(name, existing)
                THEN Goto(s, "ins_append") /\ SetLoc(s, [loc[s] EXCEPT !.name = name])
                ELSE Goto(s, "idle") /\ SetLoc(s, IdleLoc)
         /\ Elapse(expired)
    /\ UNCHANGED <<sheet, hdrCache, rateCache, locked>>

\* the rows of Categories beyond the seeded defaults ("Salary" is a default
\* no user input of the model spells)
AddedRows ==
    LET rows == SelectSeq(sheet["Categories"], IsData)
        seeded == \E i \in 1..Len(rows) : rows[i].category_name = Word("Salary")
    IN  Len(rows) - (IF seeded THEN Len(DefaultCategories) ELSE 0)

\* lines 64-66: append the category and rerun; no cache is invalidated
InsightsAppend(s) ==
    /\ pc[s] = "ins_append"
    /\ AddedRows < MaxAdds
    /\ append_row("Categories", CatRow(loc[s].name, loc[s].ctype))
    /\ SetLoc(s, IdleLoc)
    /\ Goto(s, "ins_tx")
    /\ UnchangedCaches /\ UnchangedHistory

\* 2_Monthly_Report.py line 9: the page reads Transactions
MonthlyReport(s) ==
    /\ pc[s] \in {"idle", "ready"}
    /\ \E expired \in BOOLEAN :
         /\ CanExpire(dfCache["Transactions"], expired)
         /\ read_df_fills("Transactions", expired)
         /\ Elapse(expired)
    /\ Goto(s, "idle") /\ SetLoc(s, IdleLoc)
    /\ UNCHANGED <<sheet, hdrCache, rateCache, locked>>

---------------------------------------------------------------------------
(* 2_Monthly_Report.py and the top status of 1_Entry.py, on a table read
   from Transactions *)

\* 2_Monthly_Report.py lines 19-23: NaT has no month
to_month_str(x) == IF x = {} THEN "" ELSE CHOOSE month \in x : TRUE

\* m.loc[m["type"] == type, col].sum(): the sum over an empty selection is 0
RECURSIVE SumWhere(_, _, _)
SumWhere(rows, type, col) ==
    IF rows = <<>> THEN 0
    ELSE (IF Head(rows)["type"] = type THEN Head(rows)[col] ELSE 0)
           + SumWhere(Tail(rows), type, col)

\* a summary whose net adds the expenses to the income
SummaryAddingExpense(m) ==
    LET income_eur == SumWhere(m, "Income", "amount_eur")
        expense_eur == SumWhere(m, "Expense", "amount_eur")
        income_bdt == SumWhere(m, "Income", "amount_bdt")
        expense_bdt == SumWhere(m, "Expense", "amount_bdt")
    IN  [income_eur |-> income_eur, expense_eur |-> expense_eur,
         income_bdt |-> income_bdt, expense_bdt |-> expense_bdt,
         net_eur |-> income_eur + expense_eur,
         net_bdt |-> income_bdt + expense_bdt,
         debt_net_eur |-> SumWhere(m, "Debt", "amount_eur")
                            - SumWhere(m, "Debt Payment", "amount_eur"),
         debt_net_bdt |-> SumWhere(m, "Debt", "amount_bdt")
                            - SumWhere(m, "Debt Payment", "amount_bdt")]

\* 2_Monthly_Report.py lines 75-88
Summary(m) ==
    LET income_eur == SumWhere(m, "Income", "amount_eur")
        expense_eur == SumWhere(m, "Expense", "amount_eur")
        debt_add_eur == SumWhere(m, "Debt", "amount_eur")
        debt_pay_eur == SumWhere(m, "Debt Payment", "amount_eur")
        income_bdt == SumWhere(m, "Income", "amount_bdt")
        expense_bdt == SumWhere(m, "Expense", "amount_bdt")
        debt_add_bdt == SumWhere(m, "Debt", "amount_bdt")
        debt_pay_bdt == SumWhere(m, "Debt Payment", "amount_bdt")
    IN  [income_eur |-> income_eur, expense_eur |-> expense_eur,
         income_bdt |-> income_bdt, expense_bdt |-> expense_bdt,
         net_eur |-> income_eur - expense_eur,
         net_bdt |-> income_bdt - expense_bdt,
         debt_net_eur |-> debt_add_eur - debt_pay_eur,
         debt_net_bdt |-> debt_add_bdt - debt_pay_bdt]

\* 1_Entry.py lines 65-84: the status over all transactions, zeros when the
\* table is empty
TopStatus(tx_df) ==
    IF FrameEmpty(tx_df)
    THEN [income_eur |-> 0, expense_eur |-> 0, income_bdt |-> 0, expense_bdt |-> 0,
          net_eur |-> 0, net_bdt |-> 0, debt_net_eur |-> 0, debt_net_bdt |-> 0]
    ELSE Summary(tx_df.rows)

\* 2_Monthly_Report.py line 9: normalize what read_df handed over
MonthlyNormalize(s) ==
    /\ pc[s] = "mr_norm"
    /\ SetLoc(s, [loc[s] EXCEPT !.tx_df = normalize_transactions_df(loc[s].raw_df)])
    /\ Goto(s, "mr_month")
    /\ UNCHANGED sheet /\ UnchangedCaches /\ UnchangedHistory

\* lines 11-13 and 50-72: stop on an empty table or when no row has a
\* month, else the user selects one of the months
MonthlyMonths(s) ==
    /\ pc[s] = "mr_month"
    /\ LET tx_df == loc[s].tx_df
           months_raw ==
               IF FrameEmpty(tx_df) THEN {}
               ELSE {to_month_str(tx_df.rows[i]["date"]) : i \in 1..Len(tx_df.rows)} \ {""}
       IN  IF months_raw = {}
           THEN Goto(s, "mr_stop") /\ Keep(s)
           ELSE \E sel_month \in months_raw :
                   /\ SetLoc(s, [loc[s] EXCEPT !.sel_month = sel_month])
                   /\ Goto(s, "mr_summary")
    /\ UNCHANGED sheet /\ UnchangedCaches /\ UnchangedHistory

\* the rows of the selected month: line 72
InMonth(tx_df, sel_month) ==
    LET Selected(row) == to_month_str(row["date"]) = sel_month
    IN  SelectSeq(tx_df.rows, Selected)

\* lines 72-90
MonthlySummary(s) ==
    /\ pc[s] = "mr_summary"
    /\ SetLoc(s, [loc[s] EXCEPT
                    !.summary = {Summary(InMonth(loc[s].tx_df, loc[s].sel_month))}])
    /\ Goto(s, "mr_done")
    /\ UNCHANGED sheet /\ UnchangedCaches /\ UnchangedHistory

\* 1_Entry.py lines 42 and 65-84
EntryStatus(s) ==
    /\ pc[s] = "ts_norm"
    /\ LET tx_df == normalize_transactions_df(loc[s].raw_df)
       IN  SetLoc(s, [loc[s] EXCEPT !.tx_df = tx_df, !.summary = {TopStatus(tx_df)}])
    /\ Goto(s, "ts_done")
    /\ UNCHANGED sheet /\ UnchangedCaches /\ UnchangedHistory

---------------------------------------------------------------------------
(* The spreadsheet is edited outside the application *)

\* a header row somebody changed: its first column renamed
Drifted(headers) == [headers EXCEPT ![1] = "renamed"]

\* schema drift: the header row of a worksheet no longer matches
SchemaDrift(t) ==
    /\ sheet[t] # <<>>
    /\ sheet[t][1] = HeaderRow(Headers(t))
    /\ sheet' = [sheet EXCEPT ![t][1] = HeaderRow(Drifted(Headers(t)))]
    /\ UNCHANGED <<pc, loc>> /\ UnchangedCaches /\ UnchangedHistory

---------------------------------------------------------------------------
(* Specifications *)

\* a spreadsheet call that the code wraps in try/except may raise or not
Faulty == BOOLEAN
\* ... or is taken not to raise
Sound == {FALSE}

\* a step of a run of the Entry page up to the Save button, for the dates
\* and amounts the user may enter and the calls that may raise
EntryLoadStep(s, dates, amounts, headerFaults, lookupFaults) ==
    \/ \E d \in dates, a \in amounts, ty \in EntryTypes : StartEntry(s, d, a, ty)
    \/ EnsureHeadersRead(s, headerFaults)
    \/ EnsureHeadersClear(s)
    \/ EnsureHeadersAppend(s)
    \/ EnsureHeadersInvalidate(s)
    \/ SeedRead(s)
    \/ SeedAppend(s)
    \/ SeedInvalidate(s)
    \/ LoadTx(s)
    \/ LoadCat(s)
    \/ RateLookup(s, lookupFaults)
    \/ RateFetch(s)
    \/ RateInvalidate(s)
    \/ Render(s)

\* a step of saving an entry
EntrySaveStep(s) ==
    \/ ClickSave(s)
    \/ SaveAppend(s)
    \/ SaveInvalidate(s)

\* a step of a run of the Insights page
InsightsStep(s) ==
    \/ \E name \in NameInputs, ctype \in CatTypeInputs, add \in BOOLEAN :
          StartInsights(s, name, ctype, add)
    \/ InsightsLoadTx(s)
    \/ InsightsLoadCat(s)
    \/ InsightsAppend(s)

\* the session of the single user the sequential specifications follow
User == "s1"

\* The Entry page and the Monthly Report as one user drives them, one script
\* run at a time; the lookup of a stored rate may raise, the cached header
\* read does not.
Next ==
    \/ EntryLoadStep(User, Dates, Amounts, Sound, Faulty)
    \/ EntrySaveStep(User)
    \/ MonthlyReport(User)

Spec == Init /\ [][Next]_vars

\* The header rows: the user's Entry page for today's date while somebody
\* edits the header rows in the spreadsheet; the cached header read may raise.
NextHeaders ==
    \/ EntryLoadStep(User, {Today}, Amounts, Faulty, Sound)
    \/ EntrySaveStep(User)
    \/ \E t \in Titles : SchemaDrift(t)

SpecHeaders == Init /\ [][NextHeaders]_vars

\* The categories: the user's Insights page, and the Entry page opened for
\* today's date without an amount.
NextCategories ==
    \/ InsightsStep(User)
    \/ EntryLoadStep(User, {Today}, {0}, Sound, Sound)

SpecCategories == Init /\ [][NextCategories]_vars

\* Two sessions that open the Entry page at the same time, for today's
\* date; no call raises.
NextRace ==
    \E s \in Sessions : EntryLoadStep(s, {Today}, {0}, Sound, Sound)

SpecRace == Init /\ [][NextRace]_vars

\* The report pages on any table a read of Transactions may hand over:
\* tables that lack any subset of the required columns, and complete tables.
\* the script variables when read_df has handed raw_df to the page
ReportLoc(raw_df) ==
    [s \in Sessions |-> IF s = User THEN [IdleLoc EXCEPT !.raw_df = raw_df] ELSE IdleLoc]

InitReport ==
    /\ sheet = [t \in Titles |-> <<>>]
    /\ hdrCache = NoCache(Titles)
    /\ dfCache = NoCache(DfTitles)
    /\ rateCache = NoCache(Dates)
    /\ \E page \in {"mr_norm", "ts_norm"} :
          pc = [s \in Sessions |-> IF s = User THEN page ELSE "idle"]
    /\ \/ \E columns \in SUBSET RequiredSet :
             \E rows \in SeqsUpTo(MalformedRows, MaxTxRows) :
                loc = ReportLoc(Restrict(rows, columns))
       \/ \E rows \in SeqsUpTo(WellFormedRows, MaxTxRows) :
             loc = ReportLoc(Frame(RequiredSet, rows))
    /\ locked = [d \in Dates |-> {}]
    /\ fresh = {}

NextReport ==
    \/ MonthlyNormalize(User)
    \/ MonthlyMonths(User)
    \/ MonthlySummary(User)
    \/ EntryStatus(User)

SpecReport == InitReport /\ [][NextReport]_vars

---------------------------------------------------------------------------
(* Claims about the rate store *)

RateRows == SelectSeq(sheet["Rates"], IsData)
TxRows == SelectSeq(sheet["Transactions"], IsData)

\* C1: a rate that get_rate_for_date hands back for a date is the rate every
\* earlier call handed back for that date.
C1_RateIdempotent ==
    \A s \in Sessions :
        (pc[s] = "render" /\ loc[s].rate # {}) => loc[s].rate = locked[loc[s].date]

\* C2: the Rates table holds at most one row per date, and a row once
\* written stays where it is, with its value.
C2_OneRatePerDate ==
    /\ [](\A i, j \in 1..Len(RateRows) :
            RateRows[i].date = RateRows[j].date => i = j)
    /\ [][\A i \in 1..Len(RateRows) :
            i <= Len(RateRows') /\ RateRows'[i] = RateRows[i]]_vars

\* C3: two Transactions rows of the same date carry the same rate, which is
\* the rate the Rates table holds for that date.
C3_RateLockedPerDate ==
    /\ \A i, j \in 1..Len(TxRows) :
          TxRows[i].date = TxRows[j].date
             => TxRows[i].rate_eur_bdt = TxRows[j].rate_eur_bdt
    /\ \A i \in 1..Len(TxRows) :
          /\ \E j \in 1..Len(RateRows) : RateRows[j].date = TxRows[i].date
          /\ \A j \in 1..Len(RateRows) :
                RateRows[j].date = TxRows[i].date
                   => RateRows[j].eur_bdt_rate = TxRows[i].rate_eur_bdt

\* C4: a Transactions row once written stays where it is, with the rate and
\* the amounts written at entry time.
C4_TransactionsKept ==
    [][\A i \in 1..Len(TxRows) :
          i <= Len(TxRows') /\ TxRows'[i] = TxRows[i]]_vars

---------------------------------------------------------------------------
(* Claims about the provider chain *)

Providers == {"frankfurter", "er-api"}

\* the errors of a chain whose secondary provider refused a date
SupportsOnlyToday ==
    <<"ER-API failed", "open.er-api.com", "fallback supports only today's rate">>

\* C5: for a date other than today the secondary provider is never sent a
\* request; when the primary fails, the call fails with both reasons, the
\* secondary's being that it supports only today, and the failed call leaves
\* the Rates table and every cache entry as they were.
C5_PastDateFailure ==
    [][\A s \in Sessions :
          (pc[s] = "rate_fetch" /\ pc'[s] # "rate_fetch" /\ loc[s].date # Today)
             => /\ "er-api" \notin loc'[s].reqs
                /\ \/ pc'[s] = "rate_inval" /\ loc'[s].via = "frankfurter"
                   \/ /\ pc'[s] = "render"
                      /\ loc'[s].rate = {}
                      /\ Len(loc'[s].errors) = 2
                      /\ loc'[s].errors[1][1] = "Frankfurter failed"
                      /\ loc'[s].errors[2] = SupportsOnlyToday
                      /\ sheet' = sheet
                      /\ hdrCache' = hdrCache
                      /\ dfCache' = dfCache
                      /\ rateCache' = rateCache]_vars

\* C5 happens: a resolution for a past date has failed with two errors
C5_Witness ==
    \E s \in Sessions :
        /\ pc[s] = "render"
        /\ loc[s].date # Today
        /\ loc[s].rate = {}
        /\ Len(loc[s].errors) = 2

\* C6: once the rate of a date was resolved through the secondary provider
\* as r, a call for that date made before any cache entry expires hands back
\* r without a request to a provider.
C6_RepeatWithinTTL ==
    [][\A s \in Sessions : \A f \in fresh :
          (pc[s] = "rate_lookup" /\ pc'[s] # "rate_lookup" /\ loc[s].date = f[1]
              /\ fresh' = fresh)
             => /\ pc'[s] = "render"
                /\ loc'[s].rate = {f[2]}
                /\ loc'[s].reqs \cap Providers = {}]_vars

---------------------------------------------------------------------------
(* Claims about the Entry page *)

\* C9: every Transactions row holds amount_bdt = amount_eur * rate_eur_bdt,
\* the product of the amount and the rate stored beside it.
C9_ExactConversion ==
    \A i \in 1..Len(TxRows) :
        TxRows[i].amount_bdt = TxRows[i].amount_eur * TxRows[i].rate_eur_bdt

\* C9 happens: a row with a product that is not zero was saved
C9_Witness ==
    \E i \in 1..Len(TxRows) : TxRows[i].amount_bdt > 0

\* C10: no Transactions row has an amount that is not positive or a rate
\* that is not positive, and a run that pressed Save without a resolved rate
\* ends without a write.
C10_SaveBlocked ==
    /\ [](\A i \in 1..Len(TxRows) :
            TxRows[i].amount_eur > 0 /\ TxRows[i].rate_eur_bdt > 0)
    /\ [][\A s \in Sessions :
            (pc[s] = "render" /\ pc'[s] # "render"
                /\ (loc[s].rate = {} \/ loc[s].amount <= 0))
               => pc'[s] = "idle" /\ sheet' = sheet]_vars

\* C10 happens: Save was pressed in a run whose rate resolution failed
C10_Witness ==
    \E s \in Sessions :
        pc[s] = "render" /\ loc[s].click /\ loc[s].rate = {} /\ loc[s].errors # <<>>

---------------------------------------------------------------------------
(* Claims about the caches and the categories *)

\* the positions of a script run that read a worksheet through read_df
ReadsOf(t) ==
    IF t = "Transactions" THEN {"load_tx", "ins_tx"}
    ELSE {"seed_read", "load_cat", "ins_cat"}

\* C7: every write is followed by an invalidation, so a read_df after a
\* write hands back the rows the worksheet holds, the written row included,
\* never a table cached before the write.
C7_ReadsAreFresh ==
    [][\A s \in Sessions : \A t \in DfTitles :
          (pc[s] \in ReadsOf(t) /\ pc'[s] # pc[s])
             => dfCache'[t] = {read_df_fresh(t)}]_vars

CatRows == SelectSeq(sheet["Categories"], IsData)

\* C8: no two rows of the Categories table carry the same category_name.
C8_CategoryNamesUnique ==
    \A i, j \in 1..Len(CatRows) :
        CatRows[i].category_name = CatRows[j].category_name => i = j

---------------------------------------------------------------------------
(* Claims about ensure_headers *)

\* the worksheet of the ensure_headers call session s is in
HeadersTarget(s) == EntryHeaderOrder[loc[s].i]

\* C11: when ensure_headers returns, row 1 of the worksheet is the expected
\* header row, however old the cached header row is; a call that finds row 1
\* equal to the headers writes nothing and leaves the data caches alone; a
\* call that finds it different clears the sheet, then writes the headers,
\* then invalidates every cache.
C11_EnsureHeaders ==
    [][\A s \in Sessions :
          LET t == HeadersTarget(s)
              matches == row_values_1(t) = HeaderRow(Headers(t))
              acts == <<pc[s], loc[s]>> # <<pc'[s], loc'[s]>>
          IN  /\ (pc[s] = "eh_read" /\ acts /\ pc'[s] # "eh_clear")
                    => sheet'[t] # <<>> /\ sheet'[t][1] = HeaderRow(Headers(t))
              /\ (pc[s] = "eh_read" /\ acts /\ matches)
                    => /\ pc'[s] # "eh_clear"
                       /\ sheet' = sheet
                       /\ dfCache' = dfCache
                       /\ rateCache' = rateCache
              /\ (pc[s] = "eh_read" /\ acts /\ ~matches)
                    => pc'[s] = "eh_clear"
              /\ (pc[s] = "eh_clear" /\ acts)
                    => sheet'[t] = <<>> /\ pc'[s] = "eh_append"
              /\ (pc[s] = "eh_append" /\ acts)
                    => sheet'[t] = <<HeaderRow(Headers(t))>> /\ pc'[s] = "eh_inval"
              /\ (pc[s] = "eh_inval" /\ acts)
                    => /\ hdrCache' = NoCache(Titles)
                       /\ dfCache' = NoCache(DfTitles)
                       /\ rateCache' = NoCache(Dates)
                       /\ pc'[s] \notin {"eh_clear", "eh_append", "eh_inval"}]_vars

---------------------------------------------------------------------------
(* Claims about the normalizer and the summaries *)

\* the positions of a run that has normalized its table
Normalized == {"mr_month", "mr_summary", "mr_done", "mr_stop", "ts_done"}

\* the normalized table df has the nine required columns and a row per row
\* of raw, with each cell coerced to its column's type: a missing column or
\* an unparseable cell gives no date, the amount 0, the empty string
CoercedFrom(df, raw) ==
    /\ RequiredSet \subseteq df.columns
    /\ Len(df.rows) = Len(raw.rows)
    /\ \A i \in 1..Len(raw.rows) : \A col \in RequiredSet :
          LET missing == col \notin raw.columns
              value == df.rows[i][col]
          IN  IF col = "date"
              THEN value = (IF missing THEN {} ELSE raw.rows[i][col].month)
              ELSE IF col \in AmountCols
              THEN IF missing \/ raw.rows[i][col].num = {}
                   THEN value = 0
                   ELSE {value} = raw.rows[i][col].num
              ELSE value = (IF missing THEN "" ELSE raw.rows[i][col].text)

RECURSIVE TotalOf(_, _, _, _)
TotalOf(rows, n, type, col) ==
    IF n = 0 THEN 0
    ELSE TotalOf(rows, n - 1, type, col)
           + (IF rows[n]["type"] = type THEN rows[n][col] ELSE 0)

\* the summary holds, in both currencies, the income, the expense, their
\* difference as net and debt less debt payment as debt-net of the rows
Summarises(summary, rows) ==
    \A cur \in {"eur", "bdt"} :
        LET col == IF cur = "eur" THEN "amount_eur" ELSE "amount_bdt"
            Of(type) == TotalOf(rows, Len(rows), type, col)
            income == IF cur = "eur" THEN summary.income_eur ELSE summary.income_bdt
            expense == IF cur = "eur" THEN summary.expense_eur ELSE summary.expense_bdt
            net == IF cur = "eur" THEN summary.net_eur ELSE summary.net_bdt
            debt_net == IF cur = "eur" THEN summary.debt_net_eur ELSE summary.debt_net_bdt
        IN  /\ income = Of("Income")
            /\ expense = Of("Expense")
            /\ net = Of("Income") - Of("Expense")
            /\ debt_net = Of("Debt") - Of("Debt Payment")

\* an income of 100 and an expense of 40, in either order
IncomeAndExpense(rows) ==
    /\ Len(rows) = 2
    /\ \E i, j \in 1..2 :
          /\ rows[i]["type"] = "Income" /\ rows[i]["amount_eur"] = 100
          /\ rows[j]["type"] = "Expense" /\ rows[j]["amount_eur"] = 40

\* the transactions a finished run of a report page has to summarise: those
\* of the selected month, or all of them where no month was selected
Summarised(s) ==
    IF pc[s] = "mr_done" THEN InMonth(loc[s].tx_df, loc[s].sel_month)
    ELSE IF FrameEmpty(loc[s].tx_df) THEN <<>>
    ELSE loc[s].tx_df.rows

Finished == {"mr_done", "mr_stop", "ts_done"}

\* C13: for every set of normalized transactions, the empty set included,
\* the summary yields income, expense, net = income - expense and debt-net
\* = debt - debt payment, a type without transactions counting as 0: the
\* empty set gives a summary of zeros, and an income of 100 with an expense
\* of 40 in one month gives net = 60.
C13_SummaryOfEverySet ==
    \A s \in Sessions :
        pc[s] \in Finished
           => \E summary \in loc[s].summary :
                 /\ Summarises(summary, Summarised(s))
                 /\ IncomeAndExpense(Summarised(s)) => summary.net_eur = 60

\* C13 as amended: the Monthly Report summarises the transactions of the
\* selected month as above, and stops without a summary when the table is
\* empty or no transaction has a date; the status of the Entry page
\* summarises all transactions, with zeros for the empty table.
C13_SummaryUnlessStopped ==
    \A s \in Sessions :
        /\ pc[s] \in {"mr_done", "ts_done"}
              => \E summary \in loc[s].summary :
                    /\ Summarises(summary, Summarised(s))
                    /\ IncomeAndExpense(Summarised(s)) => summary.net_eur = 60
        /\ pc[s] = "mr_done" => Summarised(s) # <<>>
        /\ pc[s] = "mr_stop"
              => /\ loc[s].summary = {}
                 /\ \/ FrameEmpty(loc[s].tx_df)
                    \/ \A i \in 1..Len(loc[s].tx_df.rows) :
                          loc[s].tx_df.rows[i]["date"] = {}

\* C13 happens: the Monthly Report has summarised a month with an income of
\* 100 and an expense of 40
C13_Witness ==
    \E s \in Sessions :
        /\ pc[s] = "mr_done"
        /\ IncomeAndExpense(Summarised(s))
        /\ \E summary \in loc[s].summary : summary.net_eur = 60

---------------------------------------------------------------------------
(* Claims about the order of the rate resolution *)

\* the primary provider turned down its answer as no positive rate
PrimaryRateInvalid == <<"Frankfurter failed", "Frankfurter", "invalid rate">>

\* C14: get_rate_for_date contacts a provider only when the lookup in the
\* Rates table gave no positive rate; the primary provider is asked first
\* and the secondary only after the primary failed; an answer that is no
\* positive rate is a failure that sets off the fallback; every rate handed
\* back or written to the Rates table is greater than 0.
C14_ProviderOrder ==
    /\ [](/\ \A s \in Sessions : \A r \in loc[s].rate : r > 0
          /\ \A i \in 1..Len(RateRows) : RateRows[i].eur_bdt_rate > 0)
    /\ [][\A s \in Sessions :
            LET d == loc[s].date
                asked == loc'[s].asked
                errors == loc'[s].errors
            IN  /\ (pc[s] = "rate_lookup" /\ pc'[s] # "rate_lookup")
                      => /\ loc'[s].reqs \cap Providers = {}
                         /\ asked = <<>>
                         /\ pc'[s] \in {"rate_fetch", "render"}
                         /\ pc'[s] = "rate_fetch" => rateCache'[d] = {{}}
                         /\ pc'[s] = "render"
                               => /\ loc'[s].rate # {}
                                  /\ rateCache'[d] = {loc'[s].rate}
                /\ (pc[s] = "rate_fetch" /\ pc'[s] # "rate_fetch")
                      => /\ asked \in {<<"frankfurter">>, <<"frankfurter", "er-api">>}
                         /\ loc'[s].reqs \cap Providers = {asked[i] : i \in 1..Len(asked)}
                         /\ Len(asked) = 2 => (errors # <<>> /\ errors[1][1] = "Frankfurter failed")
                         /\ (errors # <<>> /\ d = Today) => Len(asked) = 2
                         /\ errors = <<>> => (loc'[s].via = "frankfurter" /\ Len(asked) = 1)
                         /\ pc'[s] \in {"rate_inval", "render"}
                         /\ pc'[s] = "rate_inval"
                               => /\ loc'[s].rate # {}
                                  /\ Len(errors) < 2
                                  /\ \E r \in loc'[s].rate :
                                        sheet'["Rates"] = Append(sheet["Rates"], RateRow(d, r))
                         /\ pc'[s] = "render"
                               => /\ loc'[s].rate = {}
                                  /\ Len(errors) = 2
                                  /\ sheet' = sheet]_vars

\* C14 happens: the primary answered with a rate that is not positive and
\* the secondary provider's rate was written to the Rates table
C14_Witness ==
    \E s \in Sessions :
        /\ pc[s] = "rate_inval"
        /\ loc[s].asked = <<"frankfurter", "er-api">>
        /\ loc[s].errors = <<PrimaryRateInvalid>>

====
